---- MODULE Spec2Model ----
(***************************************************************************)
(* Model of benchexec/tools/template.py: the value objects Task and        *)
(* ResourceLimits of BaseTool2, the default cmdline, and the version probe *)
(* _version_from_tool.                                                     *)
(*                                                                         *)
(* Representation of Python values:                                        *)
(*   str         a sequence of one-character strings ("id" is <<"i","d">>) *)
(*   bytes       a sequence of byte values (integers)                      *)
(*   list/tuple  a sequence                                                *)
(*   Optional    None is <<>>, a present value x is <<x>>                  *)
(*   object ref  an address of the heap (used for the mutable options)     *)
(*                                                                         *)
(* Three specifications: Spec (one run: Task, ResourceLimits, cmdline),    *)
(* ProbeSpec (the version probe on every short output) and ToolSpec (an    *)
(* adapter class of either generation, its instance and the calls that     *)
(* several runs make on it).                                               *)
(***************************************************************************)
EXTENDS Integers, Sequences, FiniteSets, TLC

VARIABLES args, heap, task, made, rlimits, ret, probe, log, tool, env, runs, call

vars == <<args, heap, task, made, rlimits, ret, probe, log, tool, env, runs, call>>

(* ---------------------------------------------------------------- bounds *)
MaxFiles == 2
MaxIdLen == 2
MaxOpts == 2
MaxSeconds == 2
MaxAddr == 4
MaxOut == 3
MaxErr == 1
MaxAtom == 2
MaxPaths == 2
NRuns == 2

(* ------------------------------------------------------- Python helpers *)
None == <<>>
Some(x) == <<x>>
Val(o) == o[1]

SeqsUpTo(S, n) == UNION {[1..k -> S] : k \in 0..n}

\* bool(x) of a sequence-like value (str, bytes, list, tuple): non-empty
Truthy(s) == s /= <<>>

\* bool(x) of an Optional[str]: None and "" are both false
TruthyOptStr(o) == o /= None /\ Val(o) /= <<>>

\* tuple(s) of a str s: the tuple of its characters, each a str of length 1
TupleOfStr(s) == [i \in 1..Len(s) |-> <<s[i]>>]

(* ------------------------------------------------------------------ heap *)
Addr == 1..MaxAddr
Atom(n) == [kind |-> "atom", v |-> n]
Ref(a) == [kind |-> "ref", v |-> a]
IsFree(h, a) == h[a] = None
EmptyHeap == [a \in Addr |-> None]

\* the cells of the allocated objects at the addresses S
Cells(h, S) ==
    UNION {{Val(h[a])[i] : i \in 1..Len(Val(h[a]))} : a \in {b \in S : ~IsFree(h, b)}}

\* the addresses reachable from a set of addresses
RECURSIVE Reach(_, _)
Reach(h, S) ==
    LET next == S \cup {c.v : c \in {d \in Cells(h, S) : d.kind = "ref"}}
    IN IF next = S THEN S ELSE Reach(h, next)

RootSet(o) == IF o = None THEN {} ELSE {Val(o)}

\* objects no longer referenced are reclaimed
Collect(h, roots) ==
    LET live == Reach(h, roots)
    IN [a \in Addr |-> IF a \in live THEN h[a] ELSE None]

\* the structure below an address, as a value (for comparing two objects):
\* the atoms in order, each nested object between the brackets -1 and -2
RECURSIVE Deref(_, _)
RECURSIVE DerefCells(_, _, _)
DerefCells(h, obj, i) ==
    IF i > Len(obj) THEN <<>>
    ELSE (IF obj[i].kind = "ref" THEN Deref(h, obj[i].v) ELSE <<obj[i].v>>)
         \o DerefCells(h, obj, i + 1)
Deref(h, a) == <<-1>> \o DerefCells(h, Val(h[a]), 1) \o <<-2>>

DerefOpt(h, o) == IF o = None THEN None ELSE Some(Deref(h, Val(o)))

\* number of objects below an address
RECURSIVE Size(_, _)
RECURSIVE SizeCells(_, _, _)
SizeCells(h, obj, i) ==
    IF i > Len(obj) THEN 0
    ELSE (IF obj[i].kind = "ref" THEN Size(h, obj[i].v) ELSE 0) + SizeCells(h, obj, i + 1)
Size(h, a) == 1 + SizeCells(h, Val(h[a]), 1)

FreeCount(h) == Cardinality({a \in Addr : IsFree(h, a)})

LowestFree(h) == CHOOSE a \in Addr : IsFree(h, a) /\ \A b \in Addr : b < a => ~IsFree(h, b)

\* copy.deepcopy of the object at address a: fresh objects for a and for all
\* objects below it; returns the new heap and the address of the copy
RECURSIVE DeepCopyObj(_, _)
RECURSIVE DeepCopyCells(_, _, _, _)
DeepCopyCells(h, obj, i, acc) ==
    IF i > Len(obj) THEN [heap |-> h, cells |-> acc]
    ELSE IF obj[i].kind = "ref"
         THEN LET sub == DeepCopyObj(h, obj[i].v)
              IN DeepCopyCells(sub.heap, obj, i + 1, Append(acc, Ref(sub.addr)))
         ELSE DeepCopyCells(h, obj, i + 1, Append(acc, obj[i]))
DeepCopyObj(h, a) ==
    LET new == LowestFree(h)
        reserved == [h EXCEPT ![new] = Some(<<>>)]
        body == DeepCopyCells(reserved, Val(h[a]), 1, <<>>)
    IN [heap |-> [body.heap EXCEPT ![new] = Some(body.cells)], addr |-> new]

\* a faulty variant of the copy: copy.copy, a new object with the same cells
deepcopy_shallow(h, o) ==
    IF o = None THEN [heap |-> h, val |-> None]
    ELSE LET new == LowestFree(h)
         IN [heap |-> [h EXCEPT ![new] = h[Val(o)]], val |-> Some(new)]

\* copy.deepcopy(options): None stays None
deepcopy(h, o) ==
    IF o = None THEN [heap |-> h, val |-> None]
    ELSE LET c == DeepCopyObj(h, Val(o)) IN [heap |-> c.heap, val |-> Some(c.addr)]

CanCopy(h, o) == IF o = None THEN TRUE ELSE Size(h, Val(o)) <= FreeCount(h)

(* ------------------------------------------------------------------ Task *)
NoTask == [input_files_or_empty |-> <<>>, identifier |-> None,
           property_file |-> None, options |-> None]

Returned(v) == [kind |-> "return", exc |-> "", val |-> v]
Raised(e) == [kind |-> "raise", exc |-> e, val |-> <<>>]

\* a faulty variant of the constructor: the assertion is missing
Task_new_noassert(h, input_files, identifier, property_file, options) ==
    LET c == deepcopy(h, options)
    IN [kind |-> "return", exc |-> "", heap |-> c.heap,
        task |-> [input_files_or_empty |-> input_files, identifier |-> identifier,
                  property_file |-> property_file, options |-> c.val]]

\* Task.__new__
Task_new(h, input_files, identifier, property_file, options) ==
    IF Truthy(input_files) = TruthyOptStr(identifier)
    THEN [kind |-> "raise", exc |-> "AssertionError", heap |-> h, task |-> NoTask]
    ELSE LET c == deepcopy(h, options)
         IN [kind |-> "return", exc |-> "", heap |-> c.heap,
             task |-> [input_files_or_empty |-> input_files, identifier |-> identifier,
                       property_file |-> property_file, options |-> c.val]]

\* Task.with_files
Task_with_files(h, input_files, property_file, options) ==
    Task_new(h, input_files, None, property_file, options)

\* Task.without_files
Task_without_files(h, identifier, property_file, options) ==
    Task_new(h, <<>>, identifier, property_file, options)

\* a faulty variant of require_input_files: nothing is checked
Task_require_input_files_unchecked(t) == Returned(<<>>)

\* Task.require_input_files
Task_require_input_files(t) ==
    IF ~Truthy(t.input_files_or_empty)
    THEN Raised("UnsupportedFeatureException")
    ELSE Returned(<<>>)

\* Task.input_files
Task_input_files(t) ==
    LET r == Task_require_input_files(t)
    IN IF r.kind = "raise" THEN r ELSE Returned(t.input_files_or_empty)

\* Task.input_files_or_identifier
Task_input_files_or_identifier(t) ==
    IF Truthy(t.input_files_or_empty) THEN Returned(t.input_files_or_empty)
    ELSE IF t.identifier = None THEN Raised("TypeError")
    ELSE Returned(TupleOfStr(Val(t.identifier)))

(* -------------------------------------------------------- ResourceLimits *)
\* ResourceLimits.__new__
ResourceLimits_new(cputime, cputime_hard, walltime, memory, cpu_cores) ==
    [cputime |-> cputime, cputime_hard |-> cputime_hard, walltime |-> walltime,
     memory |-> memory, cpu_cores |-> cpu_cores]

(* ----------------------------------------------------------------- cmdline *)
\* a faulty variant of cmdline: the property file is appended
cmdline_propfile(executable, options, t, rl) ==
    LET f == Task_input_files_or_identifier(t)
    IN IF f.kind = "raise" THEN f
       ELSE Returned(<<executable>> \o options \o f.val \o t.property_file)

\* BaseTool2.cmdline
cmdline(executable, options, t, rl) ==
    LET f == Task_input_files_or_identifier(t)
    IN IF f.kind = "raise" THEN f
       ELSE Returned(<<executable>> \o options \o f.val)

(* ------------------------------------------------------------ str helpers *)
\* the characters of the bytes that occur (UTF-8 decoding of ASCII bytes)
Chr(b) ==
    CASE b = 10 -> "\n" [] b = 32 -> " " [] b = 46 -> "." [] b = 49 -> "1"
      [] b = 50 -> "2" [] b = 51 -> "3" [] b = 101 -> "e" [] b = 105 -> "i"
      [] b = 108 -> "l" [] b = 110 -> "n" [] b = 111 -> "o" [] b = 114 -> "r"
      [] b = 115 -> "s" [] b = 116 -> "t" [] b = 118 -> "v"

\* util.decode_to_string(bytes)
decode_to_string(bs) == [i \in 1..Len(bs) |-> Chr(bs[i])]

Whitespace == {" ", "\n", "\t", "\r"}
LineBreaks == {"\n"}

RECURSIVE lstrip(_)
lstrip(s) == IF s /= <<>> /\ Head(s) \in Whitespace THEN lstrip(Tail(s)) ELSE s

RECURSIVE rstrip(_)
rstrip(s) ==
    IF s /= <<>> /\ s[Len(s)] \in Whitespace THEN rstrip(SubSeq(s, 1, Len(s) - 1)) ELSE s

\* str.strip()
strip(s) == rstrip(lstrip(s))

\* str.splitlines(): the lines without their line breaks; a line break at the
\* end of the text opens no further line
RECURSIVE SplitFrom(_, _, _, _)
SplitFrom(s, i, cur, acc) ==
    IF i > Len(s) THEN (IF cur = <<>> THEN acc ELSE Append(acc, cur))
    ELSE IF s[i] \in LineBreaks THEN SplitFrom(s, i + 1, <<>>, Append(acc, cur))
    ELSE SplitFrom(s, i + 1, Append(cur, s[i]), acc)
splitlines(s) == SplitFrom(s, 1, <<>>, <<>>)

\* str.startswith(prefix)
startswith(line, prefix) ==
    Len(prefix) <= Len(line) /\ SubSeq(line, 1, Len(prefix)) = prefix

\* line[len(prefix):]
SliceFrom(line, n) == SubSeq(line, n + 1, Len(line))

(* --------------------------------------------------------- version probe *)
\* a faulty variant of the generator: the last matching line is taken
NextMatch_last(lines, prefix, i) ==
    LET hits == {j \in i..Len(lines) : startswith(lines[j], prefix)}
    IN IF hits = {} THEN <<>>
       ELSE strip(SliceFrom(lines[CHOOSE j \in hits : \A k \in hits : k <= j], Len(prefix)))

\* next(matches, ""): the generator is advanced to its first element
RECURSIVE NextMatch(_, _, _)
NextMatch(lines, prefix, i) ==
    IF i > Len(lines) THEN <<>>
    ELSE IF startswith(lines[i], prefix) THEN strip(SliceFrom(lines[i], Len(prefix)))
    ELSE NextMatch(lines, prefix, i + 1)

\* a faulty variant of the handler: the OSError is not caught
LaunchFailed_propagates(p) ==
    [kind |-> "raise", exc |-> "OSError", val |-> <<>>, log |-> <<>>]

\* except OSError: warning, return ""
LaunchFailed(p) ==
    [kind |-> "return", exc |-> "", val |-> <<>>, log |-> <<"Cannot run">>]

\* a faulty variant of the stderr check: ignore_stderr is not looked at
AmbiguousStderr_noignore(p) == Truthy(p.stderr) /\ ~p.use_stderr

\* if stderr and not use_stderr and not ignore_stderr
AmbiguousStderr(p) == Truthy(p.stderr) /\ ~p.use_stderr /\ ~p.ignore_stderr

\* a faulty variant of the exit code check: only positive exit codes count
BadExit_positive(p) == p.returncode > 0

\* if process.returncode
BadExit(p) == p.returncode /= 0

\* if line_prefix
HasPrefix(p) == TruthyOptStr(p.line_prefix)

\* BaseTool2._version_from_tool
version_from_tool(p) ==
    IF p.launch = "OSError" THEN LaunchFailed(p)
    ELSE IF AmbiguousStderr(p)
    THEN [kind |-> "return", exc |-> "", val |-> <<>>, log |-> <<"error output">>]
    ELSE IF BadExit(p)
    THEN [kind |-> "return", exc |-> "", val |-> <<>>, log |-> <<"exit code">>]
    ELSE LET output == strip(decode_to_string(IF p.use_stderr THEN p.stderr ELSE p.stdout))
         IN [kind |-> "return", exc |-> "", log |-> <<>>,
             val |-> IF HasPrefix(p)
                     THEN NextMatch(splitlines(output), Val(p.line_prefix), 1)
                     ELSE output]

(* ------------------------------------------------------------ path helpers *)
curdir == <<".">>
pardir == <<".", ".">>

\* os.path.dirname(p): everything before the last "/", without trailing
\* slashes unless it consists of slashes only
dirname(p) ==
    LET slashes == {i \in 1..Len(p) : p[i] = "/"}
        last == IF slashes = {} THEN 0 ELSE CHOOSE i \in slashes : \A j \in slashes : j <= i
        head == SubSeq(p, 1, last)
        body == {i \in 1..Len(head) : head[i] /= "/"}
        keep == IF body = {} THEN Len(head) ELSE CHOOSE i \in body : \A j \in body : j <= i
    IN SubSeq(head, 1, keep)

\* os.path.join(a, b)
path_join(a, b) ==
    IF b /= <<>> /\ b[1] = "/" THEN b
    ELSE IF a = <<>> \/ a[Len(a)] = "/" THEN a \o b
    ELSE a \o <<"/">> \o b

\* the pattern with every wildcard replaced by a name
RECURSIVE Fill(_, _)
Fill(pattern, name) ==
    IF pattern = <<>> THEN <<>>
    ELSE (IF Head(pattern) = "*" THEN name ELSE <<Head(pattern)>>) \o Fill(Tail(pattern), name)

\* util.expand_filename_pattern(pattern, base_dir): the paths that match the
\* pattern taken relative to base_dir, one for each entry the file system has
expand_filename_pattern(fs, pattern, base_dir) ==
    [i \in 1..Len(fs) |-> path_join(base_dir, Fill(pattern, fs[i]))]

\* util.flatten(lists): the elements of the lists, in order
RECURSIVE flatten(_)
flatten(lists) == IF lists = <<>> THEN <<>> ELSE Head(lists) \o flatten(Tail(lists))

(* ---------------------------------------------------- the adapter classes *)
RESULT_DONE == <<"d", "o", "n", "e">>
UNKOWN == <<"U", "N", "K", "O", "W", "N">>

\* the methods marked @abstractmethod of a class with metaclass ABCMeta
AbstractMethods(gen) == IF gen = "BaseTool2" THEN {"name", "executable"} ELSE {}

\* Tool(): object.__new__ refuses a class that leaves an abstract method open
Instantiable(cls) == AbstractMethods(cls.gen) \ cls.overrides = {}

\* BaseTool2.name (the body below @abstractmethod)
name(self) == Raised("NotImplementedError")

\* BaseTool.name
BaseTool_name(self) == Returned(UNKOWN)

\* BaseTool2.executable (the body below @abstractmethod)
executable(self) == Raised("NotImplementedError")

\* util.find_executable("tool"): the path found, or the program exits
find_executable(found) == IF found = None THEN Raised("SystemExit") ELSE Returned(Val(found))

\* BaseTool.executable
BaseTool_executable(self, found) == find_executable(found)

\* BaseTool2.version
version(self, exe) == Returned(<<>>)

\* BaseTool.version
BaseTool_version(self, exe) == Returned(<<>>)

\* BaseTool2.environment: the empty dict, here the sequence of its items
environment(self, exe) == Returned(<<>>)

\* BaseTool.environment
BaseTool_environment(self, exe) == Returned(<<>>)

\* BaseTool2.working_directory
working_directory(self, exe) == Returned(curdir)

\* BaseTool.working_directory
BaseTool_working_directory(self, exe) == Returned(curdir)

\* a faulty variant of the helper: the parent directory is taken unless parent_dir is set
program_files_from_executable_swapped(fs, exe, required_paths, parent_dir) ==
    LET base_dir == IF parent_dir THEN dirname(exe) ELSE path_join(dirname(exe), pardir)
    IN flatten([i \in 1..Len(required_paths) |->
                  expand_filename_pattern(fs, required_paths[i], base_dir)])

\* BaseTool2._program_files_from_executable
program_files_from_executable(fs, exe, required_paths, parent_dir) ==
    LET base_dir == IF parent_dir THEN path_join(dirname(exe), pardir) ELSE dirname(exe)
    IN flatten([i \in 1..Len(required_paths) |->
                  expand_filename_pattern(fs, required_paths[i], base_dir)])

\* BaseTool2.program_files
program_files(self, fs, exe) ==
    Returned(<<exe>> \o program_files_from_executable(fs, exe, self.REQUIRED_PATHS, FALSE))

\* BaseTool._program_files_from_executable
BaseTool_program_files_from_executable(fs, exe, required_paths, parent_dir) ==
    LET base_dir == IF parent_dir THEN path_join(dirname(exe), pardir) ELSE dirname(exe)
    IN flatten([i \in 1..Len(required_paths) |->
                  expand_filename_pattern(fs, required_paths[i], base_dir)])

\* BaseTool.program_files
BaseTool_program_files(self, fs, exe) ==
    Returned(<<exe>> \o BaseTool_program_files_from_executable(fs, exe, self.REQUIRED_PATHS, FALSE))

\* a faulty variant of determine_result: a timeout is reported as such
determine_result_timeout(exit_code, output, isTimeout) ==
    IF isTimeout THEN Returned(<<"T", "I", "M", "E", "O", "U", "T">>) ELSE Returned(RESULT_DONE)

\* BaseTool2.determine_result
determine_result(exit_code, output, isTimeout) == Returned(RESULT_DONE)

\* BaseTool.determine_result
BaseTool_determine_result(returncode, returnsignal, output, isTimeout) == Returned(RESULT_DONE)

\* BaseTool2.get_value_from_output: no return statement, the value is None
get_value_from_output(lines, identifier) == Returned(None)

\* BaseTool.get_value_from_output
BaseTool_get_value_from_output(lines, identifier) == Returned(None)

\* BaseTool.cmdline
BaseTool_cmdline(exe, options, tasks, propertyfile, rl) ==
    Returned(<<exe>> \o options \o tasks)

\* BaseTool._version_from_tool
BaseTool_version_from_tool(p) ==
    IF p.launch = "OSError"
    THEN [kind |-> "return", exc |-> "", val |-> <<>>, log |-> <<"Cannot run">>]
    ELSE IF Truthy(p.stderr) /\ ~p.use_stderr /\ ~p.ignore_stderr
    THEN [kind |-> "return", exc |-> "", val |-> <<>>, log |-> <<"error output">>]
    ELSE IF p.returncode /= 0
    THEN [kind |-> "return", exc |-> "", val |-> <<>>, log |-> <<"exit code">>]
    ELSE LET output == strip(decode_to_string(IF p.use_stderr THEN p.stderr ELSE p.stdout))
         IN [kind |-> "return", exc |-> "", log |-> <<>>,
             val |-> IF TruthyOptStr(p.line_prefix)
                     THEN NextMatch(splitlines(output), Val(p.line_prefix), 1)
                     ELSE output]

\* a faulty variant of the default operations: program_files puts the
\* executable into the list REQUIRED_PATHS of the instance
SelfAfter_insert(op, self, a) ==
    IF op = "program_files" THEN [self EXCEPT !.REQUIRED_PATHS = <<a.executable>> \o @]
    ELSE self

\* the instance after a default operation: none assigns to an attribute of
\* self, and REQUIRED_PATHS is only read
SelfAfter(op, self, a) == self

(* ------------------------------------------------------- the input sets *)
FileNames == {<<"a">>, <<"b">>}
FileSeqs == SeqsUpTo(FileNames, MaxFiles)
\* the identifiers "", "i", "id", "idi", ... up to the length MaxIdLen
IdName(k) == [j \in 1..k |-> IF j % 2 = 1 THEN "i" ELSE "d"]
Identifiers == {None} \cup {Some(IdName(k)) : k \in 0..MaxIdLen}
PropertyFiles == {None, Some(<<"p">>)}
OptionNames == {<<"-", "x">>, <<"-", "y">>}
CmdOptions == SeqsUpTo(OptionNames, MaxOpts)
OptSeconds == {None} \cup {Some(n) : n \in 1..MaxSeconds}
OptOne == {None, Some(1)}
Executable == <<"t", "o", "o", "l">>

\* the caller's options value: absent, a flat object, or an object holding another
OptionShapes == {"none", "flat", "nested"}
ShapeHeap(shape) ==
    CASE shape = "none" -> EmptyHeap
      [] shape = "flat" -> [EmptyHeap EXCEPT ![1] = Some(<<Atom(1)>>)]
      [] shape = "nested" -> [EmptyHeap EXCEPT ![1] = Some(<<Atom(1), Ref(2)>>),
                                               ![2] = Some(<<Atom(2)>>)]
ShapeRef(shape) == IF shape = "none" THEN None ELSE Some(1)

NoLimits == [cputime |-> None, cputime_hard |-> None, walltime |-> None,
             memory |-> None, cpu_cores |-> None]
LimitSamples == {NoLimits,
                 [cputime |-> Some(1), cputime_hard |-> Some(2), walltime |-> Some(1),
                  memory |-> Some(1), cpu_cores |-> Some(1)]}
AllLimits == [cputime : OptSeconds, cputime_hard : OptSeconds, walltime : OptOne,
              memory : OptOne, cpu_cores : OptOne]

NoCall == [op |-> "none", kind |-> "none", exc |-> "", val |-> <<>>]
NoMade == [ctor |-> "none", input_files |-> <<>>, identifier |-> None, options |-> None]
NoProbe == [launch |-> "none", stdout |-> <<>>, stderr |-> <<>>, returncode |-> 0,
            use_stderr |-> FALSE, ignore_stderr |-> FALSE, line_prefix |-> None]

Args(files, ident, pf, shape, opts, lim) ==
    [input_files |-> files, identifier |-> ident, property_file |-> pf,
     shape |-> shape, options |-> ShapeRef(shape), executable |-> Executable, cmd_options |-> opts,
     limits |-> lim]

NoClass == [gen |-> "none", overrides |-> {}, REQUIRED_PATHS |-> <<>>, name |-> <<>>]
NoEnv == [cls |-> NoClass, exe |-> <<>>, fs |-> <<>>, found |-> None, samples |-> "none"]
NoInvocation == [run |-> 0, op |-> "none", a |-> <<>>, interleaved |-> FALSE]

(* ------------------------------------------------------------ the program *)
\* the inputs of a run of the harness: the task definition and the options of
\* the command line, with and without limits
TaskRuns ==
    {Args(files, ident, pf, "none", opts, lim) :
        files \in FileSeqs, ident \in Identifiers, pf \in PropertyFiles,
        opts \in CmdOptions, lim \in LimitSamples}

\* the inputs of a run whose task definition has an "options" entry
OptionRuns ==
    {Args(files, ident, None, shape, <<>>, NoLimits) :
        files \in {<<>>, <<<<"a">>>>}, ident \in {None, Some(IdName(MaxIdLen))},
        shape \in OptionShapes}

\* the inputs of a run under each combination of limits
LimitRuns ==
    {Args(files, ident, None, "none", <<<<"-", "x">>>>, lim) :
        files \in {<<>>, <<<<"a">>>>}, ident \in {None, Some(IdName(MaxIdLen))},
        lim \in AllLimits}

\* one run of the harness: the inputs of the run are fixed, no object exists yet
Init ==
    /\ args \in TaskRuns \cup OptionRuns \cup LimitRuns
    /\ heap = ShapeHeap(args.shape)
    /\ task = None
    /\ made = NoMade
    /\ rlimits = None
    /\ ret = NoCall
    /\ probe = NoProbe
    /\ log = <<>>
    /\ tool = None
    /\ env = NoEnv
    /\ runs = <<>>
    /\ call = NoInvocation

Call(op, r) == [op |-> op, kind |-> r.kind, exc |-> r.exc, val |-> r.val]

\* the caller binds the constructed Task, or the exception leaves everything as it was
Construct(ctor, files, ident, r) ==
    /\ ret' = [op |-> ctor, kind |-> r.kind, exc |-> r.exc, val |-> <<>>]
    /\ IF r.kind = "return"
       THEN /\ task' = Some(r.task)
            /\ heap' = r.heap
            /\ made' = [ctor |-> ctor, input_files |-> files, identifier |-> ident,
                         options |-> DerefOpt(heap, args.options)]
       ELSE UNCHANGED <<task, heap, made>>
    /\ UNCHANGED <<tool, env, runs, call, args, rlimits, probe, log>>

\* the heap once the previously bound Task is dropped
Dropped == Collect(heap, RootSet(args.options))

\* Task(input_files, identifier, property_file, options)
NewTask ==
    /\ CanCopy(Dropped, args.options)
    /\ Construct("Task", args.input_files, args.identifier,
                 Task_new(Dropped, args.input_files, args.identifier,
                          args.property_file, args.options))

\* Task.with_files(input_files, property_file=..., options=...)
WithFiles ==
    /\ CanCopy(Dropped, args.options)
    /\ Construct("with_files", args.input_files, None,
                 Task_with_files(Dropped, args.input_files,
                                 args.property_file, args.options))

\* Task.without_files(identifier, property_file=..., options=...)
WithoutFiles ==
    /\ CanCopy(Dropped, args.options)
    /\ Construct("without_files", <<>>, args.identifier,
                 Task_without_files(Dropped, args.identifier,
                                    args.property_file, args.options))

\* ResourceLimits(cputime, cputime_hard, walltime, memory, cpu_cores)
NewResourceLimits ==
    /\ rlimits' = Some(ResourceLimits_new(args.limits.cputime, args.limits.cputime_hard,
                                          args.limits.walltime, args.limits.memory,
                                          args.limits.cpu_cores))
    /\ ret' = [op |-> "ResourceLimits", kind |-> "return", exc |-> "", val |-> <<>>]
    /\ UNCHANGED <<tool, env, runs, call, args, heap, task, made, probe, log>>

\* task.input_files
InputFiles ==
    /\ task /= None
    /\ ret' = Call("input_files", Task_input_files(Val(task)))
    /\ UNCHANGED <<tool, env, runs, call, args, heap, task, made, rlimits, probe, log>>

\* task.input_files_or_identifier
InputFilesOrIdentifier ==
    /\ task /= None
    /\ ret' = Call("input_files_or_identifier", Task_input_files_or_identifier(Val(task)))
    /\ UNCHANGED <<tool, env, runs, call, args, heap, task, made, rlimits, probe, log>>

\* task.require_input_files()
RequireInputFiles ==
    /\ task /= None
    /\ ret' = Call("require_input_files", Task_require_input_files(Val(task)))
    /\ UNCHANGED <<tool, env, runs, call, args, heap, task, made, rlimits, probe, log>>

\* tool.cmdline(executable, options, task, rlimits)
Cmdline ==
    /\ task /= None
    /\ rlimits /= None
    /\ ret' = Call("cmdline", cmdline(args.executable, args.cmd_options,
                                      Val(task), Val(rlimits)))
    /\ UNCHANGED <<tool, env, runs, call, args, heap, task, made, rlimits, probe, log>>

AtomValues == 1..MaxAtom

\* the objects the caller and the bound Task refer to
Roots == RootSet(args.options) \cup (IF task = None THEN {} ELSE RootSet(Val(task).options))

\* the caller changes its options value in place: an element of the object or
\* of an object below it is overwritten
MutateOptions ==
    /\ args.options /= None
    /\ \E a \in Reach(heap, RootSet(args.options)), v \in AtomValues :
         \E i \in 1..Len(Val(heap[a])) :
            /\ Val(heap[a])[i] /= Atom(v)
            /\ heap' = Collect([heap EXCEPT ![a] = Some([Val(heap[a]) EXCEPT ![i] = Atom(v)])],
                               Roots)
    /\ UNCHANGED <<tool, env, runs, call, args, task, made, rlimits, ret, probe, log>>

Next ==
    \/ NewTask
    \/ WithFiles
    \/ WithoutFiles
    \/ NewResourceLimits
    \/ InputFiles
    \/ InputFilesOrIdentifier
    \/ RequireInputFiles
    \/ Cmdline
    \/ MutateOptions

Spec == Init /\ [][Next]_vars

(* ------------------------------------------------- runs of the version probe *)
Bytes == {10, 32, 49, 118}
OtherBytes == {32, 118}
\* "v\nv1", "1\nv 1\nv", " v1 \n" and "tool version 1.2.3"
ExampleOutputs ==
    {<<118, 10, 118, 49>>, <<49, 10, 118, 32, 49, 10, 118>>, <<32, 118, 49, 32, 10>>,
     <<116, 111, 111, 108, 32, 118, 101, 114, 115, 105, 111, 110, 32, 49, 46, 50, 46, 51>>}
ToolVersion == <<"t", "o", "o", "l", " ", "v", "e", "r", "s", "i", "o", "n">>
LinePrefixes == {None, Some(<<>>), Some(<<"v">>), Some(ToolVersion)}
ReturnCodes == {0, 1, 2, -9}

\* what the subprocess does: it cannot be launched, or it writes to its two
\* streams and exits; the stream the probe reads varies over all short outputs
ProbeRuns ==
    {[launch |-> "OSError", stdout |-> <<>>, stderr |-> <<>>, returncode |-> 0,
      use_stderr |-> u, ignore_stderr |-> g, line_prefix |-> lp] :
        u \in BOOLEAN, g \in BOOLEAN, lp \in LinePrefixes}
    \cup
    {[launch |-> "ok",
      stdout |-> IF u THEN other ELSE read,
      stderr |-> IF u THEN read ELSE other,
      returncode |-> rc, use_stderr |-> u, ignore_stderr |-> g, line_prefix |-> lp] :
        read \in SeqsUpTo(Bytes, MaxOut) \cup ExampleOutputs,
        other \in SeqsUpTo(OtherBytes, MaxErr),
        rc \in ReturnCodes, u \in BOOLEAN, g \in BOOLEAN, lp \in LinePrefixes}

ProbeInit ==
    /\ probe \in ProbeRuns
    /\ log = <<>>
    /\ ret = NoCall
    /\ args = Args(<<>>, None, None, "none", <<>>, NoLimits)
    /\ heap = EmptyHeap
    /\ task = None
    /\ made = NoMade
    /\ rlimits = None
    /\ tool = None
    /\ env = NoEnv
    /\ runs = <<>>
    /\ call = NoInvocation

\* tool._version_from_tool(executable, arg, use_stderr, ignore_stderr, line_prefix);
\* log holds the warnings of the call
VersionFromTool ==
    /\ probe.launch /= "none"
    /\ LET r == version_from_tool(probe)
       IN /\ ret' = Call("_version_from_tool", r)
          /\ log' = r.log
    /\ UNCHANGED <<tool, env, runs, call, args, heap, task, made, rlimits, probe>>

ProbeNext == VersionFromTool

ProbeSpec == ProbeInit /\ [][ProbeNext]_vars

(* ------------------------------------------- an adapter and the runs on it *)
Runs == 1..NRuns
Generations == {"BaseTool2", "BaseTool"}
Patterns == {<<"l", "/", "*">>, <<"*">>}
Executables == {<<"t">>, <<"d", "/", "t">>, <<"/", "t">>}
\* an executable and the names the patterns match beside it
InstalledTools ==
    {<<x, <<<<"a">>, <<"b">>>>>> : x \in Executables} \cup {<<<<"d", "/", "t">>, <<>>>>}
ToolName == <<"M", "y">>

\* how the tool under test ended: exit code or killing signal
ExitStatuses == {[value |-> Some(0), signal |-> None], [value |-> Some(1), signal |-> None],
                 [value |-> None, signal |-> Some(9)]}
ResultArgs(samples) ==
    IF samples = "results"
    THEN [exit_code : ExitStatuses, output : {<<>>, <<<<"o", "k">>>>}, isTimeout : BOOLEAN]
    ELSE {[exit_code |-> [value |-> Some(0), signal |-> None], output |-> <<>>,
           isTimeout |-> FALSE]}

ProbeFew ==
    {[launch |-> "OSError", stdout |-> <<>>, stderr |-> <<>>, returncode |-> 0,
      use_stderr |-> FALSE, ignore_stderr |-> FALSE, line_prefix |-> None],
     [launch |-> "ok", stdout |-> <<118, 10, 118, 49>>, stderr |-> <<>>, returncode |-> 0,
      use_stderr |-> FALSE, ignore_stderr |-> FALSE, line_prefix |-> Some(<<"v">>)]}
ProbeMany ==
    {[launch |-> "OSError", stdout |-> <<>>, stderr |-> <<>>, returncode |-> 0,
      use_stderr |-> u, ignore_stderr |-> g, line_prefix |-> lp] :
        u \in BOOLEAN, g \in {FALSE}, lp \in {None, Some(<<"v">>)}}
    \cup
    {[launch |-> "ok",
      stdout |-> IF u THEN other ELSE read,
      stderr |-> IF u THEN read ELSE other,
      returncode |-> rc, use_stderr |-> u, ignore_stderr |-> g, line_prefix |-> lp] :
        read \in {<<>>, <<118, 10, 118, 49>>}, other \in {<<>>, <<118>>}, rc \in {0, 1},
        u \in BOOLEAN, g \in {FALSE}, lp \in {None, Some(<<"v">>)}}
ProbeArgs(samples) == IF samples = "probes" THEN ProbeMany ELSE ProbeFew

\* the adapter classes a tool-info module may define, with the executable it
\* finds and the files beside it
ClassEnvs ==
    {[cls |-> [gen |-> g, overrides |-> o, REQUIRED_PATHS |-> <<>>, name |-> ToolName],
      exe |-> <<"t">>, fs |-> <<>>, found |-> f, samples |-> "few"] :
        g \in Generations, o \in SUBSET {"name", "executable"},
        f \in {None, Some(<<"t">>)}}
FileEnvs ==
    {[cls |-> [gen |-> g, overrides |-> {"name", "executable"}, REQUIRED_PATHS |-> ps,
               name |-> ToolName],
      exe |-> xf[1], fs |-> xf[2], found |-> Some(xf[1]), samples |-> "few"] :
        g \in Generations, ps \in SeqsUpTo(Patterns, MaxPaths), xf \in InstalledTools}
CallEnvs ==
    {[cls |-> [gen |-> g, overrides |-> {"name", "executable"},
               REQUIRED_PATHS |-> <<<<"*">>>>, name |-> ToolName],
      exe |-> <<"t">>, fs |-> <<<<"a">>>>, found |-> Some(<<"t">>), samples |-> sm] :
        g \in Generations, sm \in {"probes", "results"}}

\* the task and the limits of run r: runs with input files and runs with an
\* identifier alternate
RunFiles(r) ==
    IF r % 2 = 1 THEN SubSeq(<<<<"a">>, <<"b">>>>, 1, 1 + (((r - 1) \div 2) % 2)) ELSE <<>>
RunIdentifier(r) == IF r % 2 = 1 THEN None ELSE Some(IdName(MaxIdLen))
RunOptions(r) == SubSeq(<<<<"-", "x">>, <<"-", "y">>>>, 1, r % 3)
RunLimits(r) ==
    IF r % 2 = 1 THEN NoLimits
    ELSE [cputime |-> Some(1), cputime_hard |-> Some(MaxSeconds), walltime |-> Some(1),
          memory |-> Some(1), cpu_cores |-> Some(1)]
RunObjects(r) ==
    [task |-> Task_new(EmptyHeap, RunFiles(r), RunIdentifier(r), None, None).task,
     rlimits |-> ResourceLimits_new(RunLimits(r).cputime, RunLimits(r).cputime_hard,
                                    RunLimits(r).walltime, RunLimits(r).memory,
                                    RunLimits(r).cpu_cores),
     options |-> RunOptions(r)]

\* the class is defined and the runs of the sweep have their Task and
\* ResourceLimits; no instance of the class exists yet
ToolInit ==
    /\ env \in ClassEnvs \cup FileEnvs \cup CallEnvs
    /\ tool = None
    /\ runs = [r \in Runs |-> RunObjects(r)]
    /\ call = NoInvocation
    /\ ret = NoCall
    /\ log = <<>>
    /\ probe = NoProbe
    /\ args = Args(<<>>, None, None, "none", <<>>, NoLimits)
    /\ heap = EmptyHeap
    /\ task = None
    /\ made = NoMade
    /\ rlimits = None

\* an outcome with the type of the value and the warnings logged
Out(r, ty, lg) ==
    [kind |-> r.kind, exc |-> r.exc, val |-> r.val,
     type |-> IF r.kind = "raise" THEN "exception" ELSE ty, log |-> lg]

\* the tasks argument the harness gives a legacy cmdline
LegacyTasks(t) ==
    IF Truthy(t.input_files_or_empty) THEN t.input_files_or_empty ELSE <<Val(t.identifier)>>

\* the implementation of an operation in the base class of a generation
DefaultOutcome(gen, self, op, a, e) ==
    CASE op = "name" ->
           Out(IF gen = "BaseTool2" THEN name(self) ELSE BaseTool_name(self), "str", <<>>)
      [] op = "executable" ->
           Out(IF gen = "BaseTool2" THEN executable(self)
               ELSE BaseTool_executable(self, e.found), "str", <<>>)
      [] op = "version" ->
           Out(IF gen = "BaseTool2" THEN version(self, a.executable)
               ELSE BaseTool_version(self, a.executable), "str", <<>>)
      [] op = "environment" ->
           Out(IF gen = "BaseTool2" THEN environment(self, a.executable)
               ELSE BaseTool_environment(self, a.executable), "dict", <<>>)
      [] op = "working_directory" ->
           Out(IF gen = "BaseTool2" THEN working_directory(self, a.executable)
               ELSE BaseTool_working_directory(self, a.executable), "str", <<>>)
      [] op = "program_files" ->
           Out(IF gen = "BaseTool2" THEN program_files(self, e.fs, a.executable)
               ELSE BaseTool_program_files(self, e.fs, a.executable), "list", <<>>)
      [] op = "_program_files_from_executable" ->
           Out(Returned(IF gen = "BaseTool2"
                        THEN program_files_from_executable(e.fs, a.executable,
                                                           a.required_paths, a.parent_dir)
                        ELSE BaseTool_program_files_from_executable(e.fs, a.executable,
                                                           a.required_paths, a.parent_dir)),
               "list", <<>>)
      [] op = "cmdline" ->
           Out(IF gen = "BaseTool2"
               THEN cmdline(a.executable, a.options, a.task, a.rlimits)
               ELSE BaseTool_cmdline(a.executable, a.options, LegacyTasks(a.task),
                                     a.task.property_file, a.rlimits), "list", <<>>)
      [] op = "determine_result" ->
           Out(IF gen = "BaseTool2"
               THEN determine_result(a.exit_code, a.output, a.isTimeout)
               ELSE BaseTool_determine_result(
                        IF a.exit_code.value = None THEN 0 ELSE Val(a.exit_code.value),
                        IF a.exit_code.signal = None THEN 0 ELSE Val(a.exit_code.signal),
                        a.output, a.isTimeout), "str", <<>>)
      [] op = "get_value_from_output" ->
           Out(IF gen = "BaseTool2" THEN get_value_from_output(a.lines, a.identifier)
               ELSE BaseTool_get_value_from_output(a.lines, a.identifier), "NoneType", <<>>)
      [] op = "_version_from_tool" ->
           LET r == IF gen = "BaseTool2" THEN version_from_tool(a.p)
                    ELSE BaseTool_version_from_tool(a.p)
           IN Out(r, "str", r.log)

\* tool.op(...): the method of the variant where it overrides one and is not
\* bypassed with super(), the method of the base class otherwise
MethodCall(self, op, a, e) ==
    IF op \in {"name", "executable"} /\ op \in self.overrides /\ ~a.super
    THEN Out(Returned(IF op = "name" THEN e.cls.name ELSE e.exe), "str", <<>>)
    ELSE DefaultOutcome(self.gen, self, op, a, e)

\* Tool()
Instantiate ==
    /\ IF Instantiable(env.cls)
       THEN /\ tool' = Some([gen |-> env.cls.gen, overrides |-> env.cls.overrides,
                              REQUIRED_PATHS |-> env.cls.REQUIRED_PATHS])
            /\ ret' = [op |-> "Tool", kind |-> "return", exc |-> "", val |-> <<>>]
       ELSE /\ tool' = tool
            /\ ret' = [op |-> "Tool", kind |-> "raise", exc |-> "TypeError", val |-> <<>>]
    /\ call' = [run |-> 0, op |-> "Tool", a |-> <<>>, interleaved |-> FALSE]
    /\ log' = <<>>
    /\ UNCHANGED <<args, heap, task, made, rlimits, probe, env, runs>>

\* run r calls an operation on the shared instance; interleaved records
\* whether calls of two runs have met on it
Invoke(r, op, a) ==
    /\ LET o == MethodCall(Val(tool), op, a, env)
       IN /\ ret' = [op |-> op, kind |-> o.kind, exc |-> o.exc, val |-> o.val,
                      type |-> o.type]
          /\ log' = o.log
    /\ call' = [run |-> r, op |-> op, a |-> a,
                 interleaved |-> call.interleaved \/ call.run \notin {0, r}]
    /\ tool' = Some(SelfAfter(op, Val(tool), a))
    /\ UNCHANGED <<args, heap, task, made, rlimits, probe, env, runs>>

CallName(r) ==
    /\ tool /= None
    /\ \E sup \in BOOLEAN : Invoke(r, "name", [super |-> sup])

CallExecutable(r) ==
    /\ tool /= None
    /\ \E sup \in BOOLEAN : Invoke(r, "executable", [super |-> sup])

CallVersion(r) ==
    /\ tool /= None
    /\ Invoke(r, "version", [executable |-> env.exe])

CallEnvironment(r) ==
    /\ tool /= None
    /\ Invoke(r, "environment", [executable |-> env.exe])

CallWorkingDirectory(r) ==
    /\ tool /= None
    /\ Invoke(r, "working_directory", [executable |-> env.exe])

CallProgramFiles(r) ==
    /\ tool /= None
    /\ Invoke(r, "program_files", [executable |-> env.exe])

CallProgramFilesFromExecutable(r) ==
    /\ tool /= None
    /\ \E pd \in BOOLEAN :
           Invoke(r, "_program_files_from_executable",
                  [executable |-> env.exe, required_paths |-> Val(tool).REQUIRED_PATHS,
                   parent_dir |-> pd])

CallCmdline(r) ==
    /\ tool /= None
    /\ Invoke(r, "cmdline", [executable |-> env.exe, options |-> runs[r].options,
                             task |-> runs[r].task, rlimits |-> runs[r].rlimits])

CallDetermineResult(r) ==
    /\ tool /= None
    /\ \E a \in ResultArgs(env.samples) : Invoke(r, "determine_result", a)

CallGetValueFromOutput(r) ==
    /\ tool /= None
    /\ Invoke(r, "get_value_from_output", [lines |-> <<<<"o", "k">>>>, identifier |-> <<"k">>])

CallVersionFromTool(r) ==
    /\ tool /= None
    /\ \E p \in ProbeArgs(env.samples) : Invoke(r, "_version_from_tool", [p |-> p])

ToolNext ==
    \/ Instantiate
    \/ \E r \in Runs :
          \/ CallName(r)
          \/ CallExecutable(r)
          \/ CallVersion(r)
          \/ CallEnvironment(r)
          \/ CallWorkingDirectory(r)
          \/ CallProgramFiles(r)
          \/ CallProgramFilesFromExecutable(r)
          \/ CallCmdline(r)
          \/ CallDetermineResult(r)
          \/ CallGetValueFromOutput(r)
          \/ CallVersionFromTool(r)

ToolSpec == ToolInit /\ [][ToolNext]_vars

(* ================================================================ claims *)
UFE == "UnsupportedFeatureException"

\* the arguments the latest constructor call passed to Task.__new__
CtorFiles == IF ret.op = "without_files" THEN <<>> ELSE args.input_files
CtorIdentifier == IF ret.op = "with_files" THEN None ELSE args.identifier
IsCtorCall == ret.op \in {"Task", "with_files", "without_files"}

\* C1: every constructed Task has exactly one of "input files non-empty" and
\* "identifier non-null", and a construction with both or with neither fails
\* and yields no Task.
TaskFilesXorIdentifier ==
    /\ task /= None =>
         (Truthy(Val(task).input_files_or_empty) /= (Val(task).identifier /= None))
    /\ IsCtorCall =>
         ((Truthy(CtorFiles) = (CtorIdentifier /= None)) => ret.kind = "raise")

\* C2: for a task built with Task.without_files(identifier),
\* input_files_or_identifier is the one-element sequence holding the whole
\* identifier, whatever its length.
IdentifierWrappedWhole ==
    (ret.op = "input_files_or_identifier" /\ made.ctor = "without_files") =>
        (ret.kind = "return" /\ ret.val = <<Val(made.identifier)>>)

\* C3: in every constructed ResourceLimits, cputime and cputime_hard are both
\* present or both absent, and cputime_hard >= cputime when both are present.
CpuLimitsPaired ==
    rlimits /= None =>
        LET rl == Val(rlimits)
        IN /\ (rl.cputime = None) <=> (rl.cputime_hard = None)
           /\ (rl.cputime /= None /\ rl.cputime_hard /= None) =>
                 Val(rl.cputime_hard) >= Val(rl.cputime)

\* C4: reading input_files raises UnsupportedFeatureException exactly when the
\* task has no input files; otherwise it returns the input files given at
\* construction, in their order; it never returns an empty sequence.
InputFilesRaisesIffNoFiles ==
    ret.op = "input_files" =>
        /\ (ret.kind = "raise" /\ ret.exc = UFE) <=> (made.input_files = <<>>)
        /\ made.input_files /= <<>> => (ret.kind = "return" /\ ret.val = made.input_files)
        /\ ret.kind = "return" => ret.val /= <<>>
        /\ ret.kind = "raise" => ret.exc = UFE

InputFilesWitness ==
    /\ ret.op = "input_files"
    /\ made.ctor = "without_files"
    /\ ret.kind = "raise"
    /\ ret.exc = UFE

\* C5 (as stated): evaluating Task.with_files([]).input_files ends in
\* UnsupportedFeatureException and in no other failure: the call of with_files
\* fails with nothing else, and the accessor read on its result raises it.
WithFilesEmptyEndsUnsupported ==
    /\ (ret.op = "with_files" /\ args.input_files = <<>> /\ ret.kind = "raise") =>
          ret.exc = UFE
    /\ (ret.op = "input_files" /\ made.ctor = "with_files" /\ made.input_files = <<>>) =>
          (ret.kind = "raise" /\ ret.exc = UFE)

\* C5 (amended): evaluating Task.with_files([]).input_files ends in the
\* AssertionError of the Task constructor: Task.with_files([]) builds no Task,
\* so the accessor is never read on a task made from an empty file list.
WithFilesEmptyFailsAssertion ==
    /\ (ret.op = "with_files" /\ args.input_files = <<>>) =>
          (ret.kind = "raise" /\ ret.exc = "AssertionError")
    /\ ~(made.ctor = "with_files" /\ made.input_files = <<>>)

WithFilesEmptyWitness ==
    /\ ret.op = "with_files"
    /\ args.input_files = <<>>
    /\ ret.exc = "AssertionError"
    /\ task = None

\* C6: for a task with input files the default cmdline is the executable, then
\* the options in the given order, then the input files in their order,
\* whatever the limits, the property file and the options of the task.
CmdlineIsExeOptionsFiles ==
    (ret.op = "cmdline" /\ made.input_files /= <<>>) =>
        /\ ret.kind = "return"
        /\ ret.val = <<args.executable>> \o args.cmd_options \o made.input_files

CmdlineWitness ==
    /\ ret.op = "cmdline"
    /\ Len(made.input_files) = 2
    /\ made.input_files[1] /= made.input_files[2]
    /\ Len(args.cmd_options) = 2
    /\ args.cmd_options[1] /= args.cmd_options[2]
    /\ Val(task).property_file /= None
    /\ Val(rlimits).cputime /= None

IsProbeCall == ret.op = "_version_from_tool"
ProbeRead == IF probe.use_stderr THEN probe.stderr ELSE probe.stdout
StderrRuleApplies == probe.stderr /= <<>> /\ ~probe.use_stderr /\ ~probe.ignore_stderr
PrefixGiven == probe.line_prefix /= None /\ Val(probe.line_prefix) /= <<>>

\* what the claim C8 describes: the trimmed output, or the stripped remainder of
\* the first line of it that starts with the prefix ("" when there is none)
DescribedVersion ==
    LET out == strip(decode_to_string(ProbeRead))
        lines == splitlines(out)
        pre == Val(probe.line_prefix)
        hits == {j \in 1..Len(lines) : startswith(lines[j], pre)}
        first == CHOOSE j \in hits : \A k \in hits : j <= k
    IN IF PrefixGiven
       THEN IF hits = {} THEN <<>> ELSE strip(SliceFrom(lines[first], Len(pre)))
       ELSE out

\* C13: after a Task is constructed with a caller-supplied options value, no
\* later change the caller makes to that value, at any depth, changes
\* task.options: it stays equal to the value supplied at construction.
TaskOptionsKeepValue ==
    task /= None => DerefOpt(heap, Val(task).options) = made.options

\* the caller has since changed the object below its options value
TaskOptionsWitness ==
    /\ task /= None
    /\ args.shape = "nested"
    /\ made.options = Some(<<-1, 1, -1, 2, -2, -2>>)
    /\ DerefOpt(heap, args.options) = Some(<<-1, 2, -1, 1, -2, -2>>)
    /\ DerefOpt(heap, Val(task).options) = made.options

\* C7: when the probed program exits with a non-zero exit code the probe
\* returns "", for every stdout, stderr, use_stderr, ignore_stderr, line_prefix.
NonZeroExitGivesEmpty ==
    (IsProbeCall /\ probe.launch = "ok" /\ probe.returncode /= 0) =>
        (ret.kind = "return" /\ ret.val = <<>>)

NonZeroExitWitness ==
    /\ IsProbeCall
    /\ probe.launch = "ok"
    /\ probe.returncode /= 0
    /\ probe.stderr = <<>>
    /\ strip(decode_to_string(probe.stdout)) /= <<>>
    /\ log = <<"exit code">>
    /\ ret.val = <<>>

\* C8: when the program launches, exits with 0 and the stderr rule does not
\* apply, the probe returns the trimmed stdout (stderr with use_stderr), or,
\* with a line_prefix, the stripped remainder of the first line starting with
\* it, "" when no line does; "tool version 1.2.3" with the prefix
\* "tool version" gives "1.2.3".
ProbeExtractsVersion ==
    (IsProbeCall /\ probe.launch = "ok" /\ probe.returncode = 0 /\ ~StderrRuleApplies) =>
        /\ ret.kind = "return"
        /\ ret.val = DescribedVersion
        /\ (decode_to_string(ProbeRead) = ToolVersion \o <<" ", "1", ".", "2", ".", "3">>
              /\ probe.line_prefix = Some(ToolVersion))
             => ret.val = <<"1", ".", "2", ".", "3">>

ProbeExtractsWitness ==
    /\ IsProbeCall
    /\ probe.launch = "ok"
    /\ probe.returncode = 0
    /\ ~probe.use_stderr
    /\ probe.stderr = <<>>
    /\ decode_to_string(probe.stdout) = ToolVersion \o <<" ", "1", ".", "2", ".", "3">>
    /\ probe.line_prefix = Some(ToolVersion)
    /\ ret.val = <<"1", ".", "2", ".", "3">>

\* C9: output on stderr with neither use_stderr nor ignore_stderr makes the
\* probe return "" even with exit code 0 and a version on stdout; with
\* use_stderr or ignore_stderr output on stderr raises no such warning and the
\* probe returns what exit code and read stream give.
StderrRule ==
    (IsProbeCall /\ probe.launch = "ok" /\ probe.stderr /= <<>>) =>
        IF ~probe.use_stderr /\ ~probe.ignore_stderr
        THEN ret.kind = "return" /\ ret.val = <<>> /\ log = <<"error output">>
        ELSE /\ log /= <<"error output">>
             /\ probe.returncode = 0 => (ret.kind = "return" /\ ret.val = DescribedVersion)
             /\ probe.returncode /= 0 => log = <<"exit code">>

StderrRuleWitness ==
    /\ IsProbeCall
    /\ probe.launch = "ok"
    /\ probe.stderr /= <<>>
    /\ ~probe.use_stderr
    /\ ~probe.ignore_stderr
    /\ probe.returncode = 0
    /\ strip(decode_to_string(probe.stdout)) /= <<>>
    /\ ret.val = <<>>

\* C10: when the subprocess cannot be launched the probe returns "" and no
\* exception reaches the caller; whatever the launch gives, the probe returns.
ProbeNeverRaises ==
    IsProbeCall =>
        /\ ret.kind = "return"
        /\ ret.exc = ""
        /\ probe.launch = "OSError" => (ret.val = <<>> /\ log = <<"Cannot run">>)

LaunchFailureWitness ==
    /\ IsProbeCall
    /\ probe.launch = "OSError"
    /\ ret.kind = "return"
    /\ ret.val = <<>>


(* ------------------------------------------------ claims on the adapter *)
Required == {"name", "executable"}
IsToolCall(op) == call.run \in Runs /\ call.op = op
Self == Val(tool)
\* the instance as its class makes it
Pristine ==
    [gen |-> env.cls.gen, overrides |-> env.cls.overrides,
     REQUIRED_PATHS |-> env.cls.REQUIRED_PATHS]
Outcome == [kind |-> ret.kind, exc |-> ret.exc, val |-> ret.val, type |-> ret.type, log |-> log]

\* C11: a variant that does not override name() or executable() cannot be
\* instantiated: creating the instance is rejected, and no adapter instance
\* exists on which one of the two is missing.
RequiredOverridesEnforced ==
    /\ (ret.op = "Tool" /\ ~(Required \subseteq env.cls.overrides) => ret.kind = "raise")
    /\ (tool /= None => Required \subseteq Self.overrides)

\* the expansions of the patterns ps[i..] relative to dir, in the order of
\* the patterns
RECURSIVE ExpansionsFrom(_, _, _)
ExpansionsFrom(ps, i, dir) ==
    IF i > Len(ps) THEN <<>>
    ELSE expand_filename_pattern(env.fs, ps[i], dir) \o ExpansionsFrom(ps, i + 1, dir)

\* C12: the default program_files(exe) returns exe followed by the
\* expansion of each pattern of REQUIRED_PATHS relative to the directory of
\* exe, in the order of the patterns, and exactly [exe] when REQUIRED_PATHS is
\* empty; the helper expands relative to the parent of that directory only
\* when parent_dir is set.
ProgramFilesDefault ==
    /\ IsToolCall("program_files") =>
          /\ ret.kind = "return"
          /\ ret.val[1] = call.a.executable
          /\ ret.val = <<call.a.executable>>
                       \o ExpansionsFrom(Self.REQUIRED_PATHS, 1, dirname(call.a.executable))
          /\ (Self.REQUIRED_PATHS = <<>> => ret.val = <<call.a.executable>>)
    /\ IsToolCall("_program_files_from_executable") =>
          /\ ret.kind = "return"
          /\ ret.val = ExpansionsFrom(call.a.required_paths, 1,
                           IF call.a.parent_dir
                           THEN path_join(dirname(call.a.executable), pardir)
                           ELSE dirname(call.a.executable))

\* program_files has returned the executable in a directory and the
\* expansions of two patterns
ProgramFilesWitness ==
    /\ IsToolCall("program_files")
    /\ dirname(call.a.executable) = <<"d">>
    /\ Len(Self.REQUIRED_PATHS) = 2
    /\ Len(ret.val) = 5

\* C14: the unoverridden determine_result returns the generic "done" label
\* for every exit status, every output and both values of isTimeout, in the
\* current and in the legacy generation.
DetermineResultDone ==
    IsToolCall("determine_result") =>
        ret.kind = "return" /\ ret.type = "str" /\ ret.val = RESULT_DONE

\* determine_result has answered for a run killed by a signal on timeout
DetermineResultWitness ==
    /\ IsToolCall("determine_result")
    /\ Self.gen = "BaseTool2"
    /\ call.a.isTimeout
    /\ call.a.exit_code.signal = Some(9)
    /\ ret.val = RESULT_DONE

\* the operations both generations declare with the same arguments
SharedOps ==
    {"name", "executable", "version", "_version_from_tool", "environment", "program_files",
     "working_directory", "get_value_from_output"}
\* the call ran the implementation of the base class
IsDefaultCall ==
    IF call.op \in Required THEN call.a.super \/ call.op \notin Self.overrides ELSE TRUE

\* C15: name, executable, version, the version probe, environment,
\* program_files, working_directory and get_value_from_output of the legacy
\* generation have the same default behaviour as in the current generation:
\* the outcome of the default in one is the outcome of the default in the
\* other for the same arguments, subprocess and file system.
LegacySameDefaults ==
    (call.run \in Runs /\ call.op \in SharedOps /\ Self.gen = "BaseTool") =>
        (IsDefaultCall => Outcome = DefaultOutcome("BaseTool2", Self, call.op, call.a, env))

\* the operations C16 names
DefaultOps ==
    {"version", "environment", "program_files", "working_directory", "cmdline",
     "determine_result", "get_value_from_output"}
\* what the last call returns when it is the only call ever made on a fresh
\* instance of the class
SoloOutcome == MethodCall(Pristine, call.op, call.a, env)
CallsLeaveObjectsAlone ==
    /\ tool /= None => tool' = tool
    /\ runs' = runs
    /\ (call'.op = "cmdline" =>
           call'.a.task = RunObjects(call'.run).task
           /\ call'.a.rlimits = RunObjects(call'.run).rlimits)

\* C16: the default operations never modify the adapter instance, the Task
\* or the ResourceLimits, and in any interleaving of the runs' calls on the
\* shared instance each call returns what it returns when run alone with the
\* same arguments.
SharedInstanceSafe ==
    /\ []((call.run \in Runs /\ call.op \in DefaultOps) => Outcome = SoloOutcome)
    /\ [][CallsLeaveObjectsAlone]_vars

\* a run has got the program files from the instance after another run has
\* called it
SharedInstanceWitness ==
    /\ IsToolCall("program_files")
    /\ call.interleaved
    /\ call.run = NRuns
    /\ Len(ret.val) > 1

====
